---- MODULE Spec2Model ----
(***************************************************************************)
(* A model of src/downtime-module.js: the DowntimeActivity item (its       *)
(* schema, rollDowntimeActivity, performActivity) and the four click       *)
(* handlers DowntimeActivitySheet.activateListeners installs.              *)
(*                                                                         *)
(* Every handler is an async function.  It runs synchronously up to an     *)
(* `await`, and the rest of it runs when the awaited promise settles.      *)
(* The awaited promises are Roll.evaluate (line 70) and Document.update    *)
(* (lines 87, 116, 182, 192).  An update is a request to the host's        *)
(* document backend: the local item data (this.system) changes when the    *)
(* backend answers, not when the request is made; requests are answered    *)
(* in the order they were made.  One action of the model is one            *)
(* synchronous stretch of one handler.                                     *)
(***************************************************************************)
EXTENDS Integers, Sequences, FiniteSets, TLC

VARIABLES
    system,         \* this.item.system: the fields of the schema the module reads or writes
    evaluating,     \* number of rollDowntimeActivity calls suspended at line 70
    pending,        \* update requests made and not yet answered, oldest first
    notifications,  \* what ui.notifications was given, in order
    chat,           \* what ChatMessage.create was given, in order
    renders,        \* number of this.render(true) calls made by the handlers
    history         \* one entry per finished handler call (history variable)

vars == <<system, evaluating, pending, notifications, chat, renders, history>>

\* ------------------------------------------------------------------ bounds

\* Handler calls (clicks) per behaviour.
MaxClicks == 3
\* Longest outcome list SpecResolve starts from.
MaxLen == 2
\* Longest outcome list SpecOutcomes starts from.
MaxOutcomes == 3
\* Largest range endpoint SpecResolve starts from.
MaxEnd == 2

\* ------------------------------------------------------------------ schema

OutcomeRange(minRoll, maxRoll, description) ==
    [minRoll |-> minRoll, maxRoll |-> maxRoll, description |-> description]

\* The `initial` of the outcomes ArrayField.
SchemaInitialOutcomes ==
    << OutcomeRange(1, 7, ""), OutcomeRange(8, 15, ""), OutcomeRange(16, 20, "") >>

\* The schema's `initial` values of the fields the module uses.
SchemaInitial ==
    [ isComplete     |-> FALSE,
      rollDie        |-> "1d20",
      currentOutcome |-> "",
      outcomes       |-> SchemaInitialOutcomes ]

\* The element the add-outcome handler pushes.
NewOutcome == OutcomeRange(1, 20, "")

\* game.i18n.localize("DOWNTIME.NoOutcomeFound"): the text shown when no range matches.
NoOutcomeFound == "DOWNTIME.NoOutcomeFound"

\* ------------------------------------------------------------------ helpers

Min(a, b) == IF a < b THEN a ELSE b
Max(a, b) == IF a > b THEN a ELSE b

Last(s) == s[Len(s)]

\* Handler calls started so far: each is suspended at the roll, suspended at an
\* update, or finished.
Started == evaluating + Len(pending) + Len(history)

\* ------------------------------------------------ rollDowntimeActivity: pure parts

\* The check of line 64 left out.
NeverMissing(rollExpression) == FALSE

\* `!rollExpression` (line 64): the empty string is falsy.
MissingRollDie(rollExpression) == rollExpression = ""

\* The loop's test with its upper comparison strict.
InRangeExclusive(rollResult, outcome) ==
    rollResult >= outcome.minRoll /\ rollResult < outcome.maxRoll

\* The loop's test (line 75).
InRange(rollResult, outcome) ==
    rollResult >= outcome.minRoll /\ rollResult <= outcome.maxRoll

\* The loop of lines 73-79 from position i on: <<outcome>> for the first outcome
\* in range, <<>> for matchedOutcome = null.
RECURSIVE MatchedOutcome(_, _, _)
MatchedOutcome(outcomes, rollResult, i) ==
    IF i > Len(outcomes) THEN << >>
    ELSE IF InRange(rollResult, outcomes[i]) THEN << outcomes[i] >>
    ELSE MatchedOutcome(outcomes, rollResult, i + 1)

\* Lines 73-84: the text the roll resolves to.
OutcomeText(outcomes, rollResult) ==
    LET matchedOutcome == MatchedOutcome(outcomes, rollResult, 1)
    IN  IF matchedOutcome # << >> THEN matchedOutcome[1].description
        ELSE NoOutcomeFound

\* ------------------------------------------------ update payloads

\* { "system.currentOutcome": outcomeText } (line 87).
RollChanges(outcomeText) == [currentOutcome |-> outcomeText]

\* A toggle in place of `true`.
CompleteToggles == [isComplete |-> ~system.isComplete]

\* { "system.isComplete": true } (line 116).
CompleteChanges == [isComplete |-> TRUE]

\* An outcomes update that also clears the current outcome.
OutcomesChangesClearing(outcomes) == [outcomes |-> outcomes, currentOutcome |-> ""]

\* {"system.outcomes": outcomes} (lines 182, 192).
OutcomesChanges(outcomes) == [outcomes |-> outcomes]

\* What an answered update does to the local data: the fields named in the
\* payload take the payload's values, the others keep theirs.
Updated(data, changes) ==
    [f \in DOMAIN data |-> IF f \in DOMAIN changes THEN changes[f] ELSE data[f]]

\* ------------------------------------------------ remove-outcome: pure parts

\* A data-index attribute is a string: here a sequence of one-character strings.
DigitChars == << "0", "1", "2", "3", "4", "5", "6", "7", "8", "9" >>
IsDigit(c) == \E d \in 1..Len(DigitChars) : DigitChars[d] = c
DigitValue(c) == (CHOOSE d \in 1..Len(DigitChars) : DigitChars[d] = c) - 1

NaN == [isNaN |-> TRUE, n |-> 0]
Number(n) == [isNaN |-> FALSE, n |-> n]

RECURSIVE TrimStart(_)
TrimStart(str) ==
    IF str # << >> /\ Head(str) = " " THEN TrimStart(Tail(str)) ELSE str

\* The value of the longest prefix of digits of str, continuing from acc.
RECURSIVE ParseDigits(_, _)
ParseDigits(str, acc) ==
    IF str = << >> \/ ~IsDigit(Head(str)) THEN acc
    ELSE ParseDigits(Tail(str), 10 * acc + DigitValue(Head(str)))

\* parseInt(str) (line 189): leading white space skipped, an optional sign, then
\* the digits up to the first character that is none; NaN when there is no digit.
ParseInt(str) ==
    LET t      == TrimStart(str)
        signed == t # << >> /\ Head(t) \in {"+", "-"}
        digits == IF signed THEN Tail(t) ELSE t
        value  == ParseDigits(digits, 0)
    IN  IF digits = << >> \/ ~IsDigit(Head(digits)) THEN NaN
        ELSE IF signed /\ Head(t) = "-" THEN Number(0 - value)
        ELSE Number(value)

\* Array.prototype.splice(start, deleteCount) without inserted items, as called on
\* line 191 (0-based start; a NaN start counts as 0, a negative one from the end).
Splice(array, start, deleteCount) ==
    LET len               == Len(array)
        relativeStart     == IF start.isNaN THEN 0 ELSE start.n
        actualStart       == IF relativeStart < 0 THEN Max(len + relativeStart, 0)
                             ELSE Min(relativeStart, len)
        actualDeleteCount == Min(Max(deleteCount, 0), len - actualStart)
    IN  SubSeq(array, 1, actualStart)
            \o SubSeq(array, actualStart + actualDeleteCount + 1, len)

\* splice(index) without its deleteCount: everything from index on goes.
RemovedToEnd(outcomes, index) == Splice(outcomes, index, Len(outcomes))

\* Lines 190-191: the clone of the outcomes with splice(index, 1) applied.
Removed(outcomes, index) == Splice(outcomes, index, 1)

\* unshift in place of push: the new outcome goes first.
Unshifted(outcomes) == << NewOutcome >> \o outcomes

\* Lines 180-181: the clone of the outcomes with the new outcome pushed.
Pushed(outcomes) == Append(outcomes, NewOutcome)

\* ------------------------------------------------ collaborators

Notification(level, key) == [level |-> level, key |-> key]

NoRollDieWarning == Notification("warn", "DOWNTIME.NoRollDieWarning")
RollCompleteNotification == Notification("info", "DOWNTIME.RollCompleteNotification")
RollError == Notification("error", "DOWNTIME.RollError")
ActivityCompletedNotification ==
    Notification("info", "DOWNTIME.ActivityCompletedNotification")

\* The chat message of lines 90-100.
RollChat(rollResult, outcomeText) ==
    [key |-> "DOWNTIME.ActivityRoll", rollResult |-> rollResult, outcome |-> outcomeText]

\* The chat message of lines 117-120.
CompletedChat(currentOutcome) ==
    [key |-> "DOWNTIME.ActivityCompletedChat", outcome |-> currentOutcome]

\* An entry of history: the handler call `op` has finished with `result`
\* ("ok", "warn": the early return of line 66, "error": the catch of line 104,
\* "rejected": an update's rejection nothing catches); `req` is what the call
\* read and asked for, `before` and `after` the item data around its last
\* step, `wrote` whether its update was applied.
Finished(op, result, wrote, req, before, after) ==
    [op |-> op, result |-> result, wrote |-> wrote, req |-> req,
     before |-> before, after |-> after]

\* ------------------------------------------------ the roll button (lines 171-175)

\* The click, up to rollDowntimeActivity's first await: the early return of
\* lines 64-67 and the render of line 174, or the roll request of line 70.
RollClick ==
    /\ Started < MaxClicks
    /\ IF MissingRollDie(system.rollDie)
       THEN /\ notifications' = Append(notifications, NoRollDieWarning)
            /\ renders' = renders + 1
            /\ history' = Append(history,
                   Finished("roll", "warn", FALSE, [read |-> system], system, system))
            /\ UNCHANGED <<system, evaluating, pending, chat>>
       ELSE /\ evaluating' = evaluating + 1
            /\ UNCHANGED <<system, pending, notifications, chat, renders, history>>

\* Roll.evaluate resolves with total rollResult: lines 71-87, up to the await of
\* the update.  The outcomes read are the item's at this moment.
RollEvaluated(rollResult) ==
    /\ evaluating > 0
    /\ evaluating' = evaluating - 1
    /\ pending' = Append(pending,
           [op         |-> "roll",
            rollResult |-> rollResult,
            read       |-> system,
            changes    |-> RollChanges(OutcomeText(system.outcomes, rollResult))])
    /\ UNCHANGED <<system, notifications, chat, renders, history>>

\* new Roll(...) throws or evaluate rejects: the catch of lines 104-107, then
\* the render of line 174.
RollFailed ==
    /\ evaluating > 0
    /\ evaluating' = evaluating - 1
    /\ notifications' = Append(notifications, RollError)
    /\ renders' = renders + 1
    /\ history' = Append(history,
           Finished("roll", "error", FALSE, [read |-> system], system, system))
    /\ UNCHANGED <<system, pending, chat>>

\* The update of line 87 is answered: the data changes, then lines 90-102 and
\* the render of line 174.
RollAnswered ==
    /\ pending # << >>
    /\ Head(pending).op = "roll"
    /\ LET req == Head(pending)
           outcomeText == req.changes.currentOutcome
       IN  /\ system' = Updated(system, req.changes)
           /\ chat' = Append(chat, RollChat(req.rollResult, outcomeText))
           /\ notifications' = Append(notifications, RollCompleteNotification)
           /\ history' = Append(history,
                  Finished("roll", "ok", TRUE, req, system, system'))
    /\ pending' = Tail(pending)
    /\ renders' = renders + 1
    /\ UNCHANGED evaluating

\* The update of line 87 is answered and a call of lines 90-102 throws, before
\* or after the chat message is created: the catch of lines 104-107 runs with
\* the data already changed.
RollReportThrows ==
    /\ pending # << >>
    /\ Head(pending).op = "roll"
    /\ LET req == Head(pending)
           outcomeText == req.changes.currentOutcome
       IN  /\ system' = Updated(system, req.changes)
           /\ \/ chat' = chat
              \/ chat' = Append(chat, RollChat(req.rollResult, outcomeText))
           /\ notifications' = Append(notifications, RollError)
           /\ history' = Append(history,
                  Finished("roll", "error", TRUE, req, system, system'))
    /\ pending' = Tail(pending)
    /\ renders' = renders + 1
    /\ UNCHANGED evaluating

\* The update of line 87 is rejected: the catch of lines 104-107.
RollRejected ==
    /\ pending # << >>
    /\ Head(pending).op = "roll"
    /\ notifications' = Append(notifications, RollError)
    /\ history' = Append(history,
           Finished("roll", "error", FALSE, Head(pending), system, system))
    /\ pending' = Tail(pending)
    /\ renders' = renders + 1
    /\ UNCHANGED <<system, evaluating, chat>>

\* ------------------------------------------------ the complete button (lines 164-168)

\* The click, up to performActivity's await of the update (line 116).
CompleteClick ==
    /\ Started < MaxClicks
    /\ pending' = Append(pending,
           [op |-> "complete", read |-> system, changes |-> CompleteChanges])
    /\ UNCHANGED <<system, evaluating, notifications, chat, renders, history>>

\* The update of line 116 is answered: lines 117-121, then the render of line 167.
CompleteAnswered ==
    /\ pending # << >>
    /\ Head(pending).op = "complete"
    /\ system' = Updated(system, Head(pending).changes)
    /\ chat' = Append(chat, CompletedChat(system'.currentOutcome))
    /\ notifications' = Append(notifications, ActivityCompletedNotification)
    /\ history' = Append(history,
           Finished("complete", "ok", TRUE, Head(pending), system, system'))
    /\ pending' = Tail(pending)
    /\ renders' = renders + 1
    /\ UNCHANGED evaluating

\* ------------------------------------------------ the outcome buttons (lines 178-194)

\* The add-outcome click, up to the await of line 182.
AddClick ==
    /\ Started < MaxClicks
    /\ pending' = Append(pending,
           [op      |-> "add",
            read    |-> system,
            changes |-> OutcomesChanges(Pushed(system.outcomes))])
    /\ UNCHANGED <<system, evaluating, notifications, chat, renders, history>>

\* The remove-outcome click on an element whose data-index attribute is
\* datasetIndex, up to the await of line 192.
RemoveClick(datasetIndex) ==
    /\ Started < MaxClicks
    /\ LET index == ParseInt(datasetIndex)
       IN  pending' = Append(pending,
               [op      |-> "remove",
                index   |-> index,
                read    |-> system,
                changes |-> OutcomesChanges(Removed(system.outcomes, index))])
    /\ UNCHANGED <<system, evaluating, notifications, chat, renders, history>>

\* The update of line 182 or 192 is answered: the data changes, then the render
\* of line 183 or 193.
OutcomesAnswered ==
    /\ pending # << >>
    /\ Head(pending).op \in {"add", "remove"}
    /\ system' = Updated(system, Head(pending).changes)
    /\ history' = Append(history,
           Finished(Head(pending).op, "ok", TRUE, Head(pending), system, system'))
    /\ pending' = Tail(pending)
    /\ renders' = renders + 1
    /\ UNCHANGED <<evaluating, notifications, chat>>

\* The update of line 116, 182 or 192 is rejected.  Nothing catches it: the
\* handler ends there, without its render.
UnhandledRejection ==
    /\ pending # << >>
    /\ Head(pending).op \in {"complete", "add", "remove"}
    /\ history' = Append(history,
           Finished(Head(pending).op, "rejected", FALSE, Head(pending), system, system))
    /\ pending' = Tail(pending)
    /\ UNCHANGED <<system, evaluating, notifications, chat, renders>>

\* ------------------------------------------------ the item sheet's specification

\* The roll expressions an item is given: the schema's, and none.
RollDice == {"1d20", ""}

\* The outcome lists an item starts from: the schema's, and the schema's with
\* its descriptions filled in on the sheet.
SheetOutcomes ==
    { SchemaInitialOutcomes,
      << OutcomeRange(1, 7, "A"), OutcomeRange(8, 15, "B"), OutcomeRange(16, 20, "C") >> }

\* The totals a roll gives: one below every range, one in the second range.
RollTotals == {0, 8}

\* The data-index attributes a click carries: "1" (a row of the sheet), "10" (a
\* row that is no longer there) and "-1".
DatasetIndices == { <<"1">>, <<"1", "0">>, <<"-", "1">> }

Init ==
    /\ system \in { [SchemaInitial EXCEPT !.rollDie = d, !.outcomes = o] :
                        d \in RollDice, o \in SheetOutcomes }
    /\ evaluating = 0
    /\ pending = << >>
    /\ notifications = << >>
    /\ chat = << >>
    /\ renders = 0
    /\ history = << >>

Next ==
    \/ RollClick
    \/ \E rollResult \in RollTotals : RollEvaluated(rollResult)
    \/ RollFailed
    \/ RollAnswered
    \/ RollReportThrows
    \/ RollRejected
    \/ CompleteClick
    \/ CompleteAnswered
    \/ AddClick
    \/ \E datasetIndex \in DatasetIndices : RemoveClick(datasetIndex)
    \/ OutcomesAnswered
    \/ UnhandledRejection

Spec == Init /\ [][Next]_vars

\* ------------------------------------------------ the roll alone, on any outcome list

BoundedSeq(S, n) == UNION { [1..k -> S] : k \in 0..n }

\* Ranges with every pair of endpoints in 0..MaxEnd, minRoll > maxRoll included.
ResolveRanges ==
    { OutcomeRange(a, b, d) : a \in 0..MaxEnd, b \in 0..MaxEnd, d \in {"A", "B"} }

\* Totals from below every range to above every range.
ResolveTotals == (0 - 1)..(MaxEnd + 1)

InitResolve ==
    /\ system \in { [SchemaInitial EXCEPT !.outcomes = o] :
                        o \in BoundedSeq(ResolveRanges, MaxLen) }
    /\ evaluating = 0
    /\ pending = << >>
    /\ notifications = << >>
    /\ chat = << >>
    /\ renders = 0
    /\ history = << >>

\* One click of the roll button and what follows it.
NextResolve ==
    \/ Started = 0 /\ RollClick
    \/ \E rollResult \in ResolveTotals : RollEvaluated(rollResult)
    \/ RollFailed
    \/ RollAnswered
    \/ RollReportThrows
    \/ RollRejected

SpecResolve == InitResolve /\ [][NextResolve]_vars

\* ------------------------------------------------ one outcome button, on any outcome list

\* Three outcomes that differ, so that positions can be told apart.
MarkedOutcomes ==
    { OutcomeRange(1, 7, "A"), OutcomeRange(8, 15, "B"), OutcomeRange(16, 20, "C") }

\* data-index attributes: "0".."3", "-1", "-4", none, "x", "1x", " 2", "+1".
AnyDatasetIndices ==
    { <<"0">>, <<"1">>, <<"2">>, <<"3">>, <<"-", "1">>, <<"-", "4">>, << >>,
      <<"x">>, <<"1", "x">>, <<" ", "2">>, <<"+", "1">> }

InitOutcomes ==
    /\ system \in { [SchemaInitial EXCEPT !.outcomes = o] :
                        o \in BoundedSeq(MarkedOutcomes, MaxOutcomes) }
    /\ evaluating = 0
    /\ pending = << >>
    /\ notifications = << >>
    /\ chat = << >>
    /\ renders = 0
    /\ history = << >>

\* One click of an outcome button and what follows it.
NextOutcomes ==
    \/ Started = 0 /\ AddClick
    \/ \E datasetIndex \in AnyDatasetIndices : Started = 0 /\ RemoveClick(datasetIndex)
    \/ OutcomesAnswered
    \/ UnhandledRejection

SpecOutcomes == InitOutcomes /\ [][NextOutcomes]_vars

\* ================================================ properties

\* The handler calls that have finished, and the update requests still waiting.
FinishedCalls == { history[i] : i \in DOMAIN history }
PendingRequests == { pending[i] : i \in DOMAIN pending }

\* The roll requests made so far, answered or not.
RollRequests ==
    { r \in PendingRequests : r.op = "roll" }
        \cup { h.req : h \in { g \in FinishedCalls :
                                   g.op = "roll" /\ "rollResult" \in DOMAIN g.req } }

\* The positions of O whose range contains r.
Containing(O, r) == { i \in DOMAIN O : O[i].minRoll <= r /\ r <= O[i].maxRoll }

\* C1: for every roll total and every outcome list (empty, overlapping, with
\* gaps, with minRoll > maxRoll), the text the roll resolves to is the
\* description of the first range in list order that contains the total, and it
\* is the no-outcome text exactly when no range contains the total; that text is
\* what an applied roll leaves in currentOutcome.
ResolvesToFirstMatch ==
    /\ \A req \in RollRequests :
          LET O    == req.read.outcomes
              r    == req.rollResult
              text == req.changes.currentOutcome
              M    == Containing(O, r)
          IN  /\ M = {} => text = NoOutcomeFound
              /\ M # {} => \E i \in M : /\ \A j \in M : i <= j
                                        /\ text = O[i].description
              /\ text = NoOutcomeFound <=> M = {}
    /\ \A h \in FinishedCalls :
          (h.op = "roll" /\ h.wrote) =>
              h.after.currentOutcome = h.req.changes.currentOutcome

\* C1's case: an applied roll whose total lies in two ranges with different
\* descriptions; the first one's description is the current outcome.
ResolvedOverlapWitness ==
    \E h \in FinishedCalls :
        /\ h.op = "roll" /\ h.wrote
        /\ LET O == h.req.read.outcomes
               M == Containing(O, h.req.rollResult)
           IN  /\ Cardinality(M) = 2
               /\ O[1].description # O[2].description
               /\ h.after.currentOutcome = O[1].description

\* Whether the parsed index is a position of a list of length len (0-based).
ValidIndex(index, len) == ~index.isNaN /\ 0 <= index.n /\ index.n < len

\* C6: a removal with a valid index i leaves the old list without its element
\* i: one element fewer, the elements before i where they were, the elements
\* after i one place earlier.
RemoveDeletesExactlyOne ==
    \A h \in FinishedCalls :
        (/\ h.op = "remove" /\ h.result = "ok"
         /\ h.req.read.outcomes = h.before.outcomes
         /\ ValidIndex(h.req.index, Len(h.before.outcomes)))
        => LET old == h.before.outcomes
               new == h.after.outcomes
               i   == h.req.index.n + 1
           IN  /\ Len(new) = Len(old) - 1
               /\ \A j \in 1..Len(new) : new[j] = IF j < i THEN old[j] ELSE old[j + 1]

\* C6's case: the middle one of three different outcomes has been removed.
RemovedMiddleWitness ==
    \E h \in FinishedCalls :
        /\ h.op = "remove" /\ h.result = "ok"
        /\ Len(h.before.outcomes) = 3
        /\ h.req.index = Number(1)
        /\ h.before.outcomes[1] # h.before.outcomes[3]
        /\ Len(h.after.outcomes) = 2

\* C7: an addition leaves the old list, unchanged and in order, followed by one
\* range with minRoll 1, maxRoll 20 and an empty description.
AddAppendsDefault ==
    \A h \in FinishedCalls :
        (/\ h.op = "add" /\ h.result = "ok"
         /\ h.req.read.outcomes = h.before.outcomes)
        => LET old == h.before.outcomes
               new == h.after.outcomes
           IN  /\ Len(new) = Len(old) + 1
               /\ \A j \in 1..Len(old) : new[j] = old[j]
               /\ new[Len(new)].minRoll = 1
               /\ new[Len(new)].maxRoll = 20
               /\ new[Len(new)].description = ""

\* C7's case: an outcome has been added to a list that held some.
AddedToNonEmptyWitness ==
    \E h \in FinishedCalls :
        /\ h.op = "add" /\ h.result = "ok"
        /\ Len(h.before.outcomes) >= 2
        /\ Len(h.after.outcomes) = Len(h.before.outcomes) + 1

\* C2: the text an applied roll writes to currentOutcome is what its total
\* resolves to against the outcomes the item holds at the moment of the write.
WriteMatchesOutcomesAtWrite ==
    \A h \in FinishedCalls :
        (h.op = "roll" /\ h.wrote) =>
            h.after.currentOutcome = OutcomeText(h.before.outcomes, h.req.rollResult)

Count(S) == Cardinality(S)

\* C3: on an item whose roll expression is empty no roll is ever requested and
\* no roll update is ever made; every roll call that has finished has given
\* ui.notifications the no-roll-die warning, one per call, and has left every
\* field of the item as it was.
MissingRollDieWarnsOnly ==
    system.rollDie = "" =>
        /\ evaluating = 0
        /\ \A r \in PendingRequests : r.op # "roll"
        /\ \A h \in FinishedCalls :
              h.op = "roll" => /\ h.result = "warn"
                               /\ ~h.wrote
                               /\ h.after = h.before
        /\ Count({ i \in DOMAIN notifications : notifications[i] = NoRollDieWarning })
              = Count({ i \in DOMAIN history : history[i].op = "roll" })
        /\ \A i \in DOMAIN notifications : notifications[i] # RollError
        /\ system.currentOutcome = SchemaInitial.currentOutcome

\* C3's case: the roll button has been clicked on an item without roll
\* expression, and the warning is among the notifications.
MissingRollDieWitness ==
    /\ system.rollDie = ""
    /\ \E h \in FinishedCalls : h.op = "roll" /\ h.result = "warn"
    /\ \E i \in DOMAIN notifications : notifications[i] = NoRollDieWarning

\* C4: a roll call that ends by reporting the roll error has not written
\* currentOutcome and has left the item as it was.
RollErrorLeavesRecord ==
    \A h \in FinishedCalls :
        (h.op = "roll" /\ h.result = "error") => (~h.wrote /\ h.after = h.before)

\* C5: a removal whose index is no position of the outcomes (too large,
\* negative, or not a number) reports an error and leaves the outcomes as they were.
RemoveOutOfRangeFails ==
    \A h \in FinishedCalls :
        (/\ h.op = "remove" /\ h.result # "rejected"
         /\ ~ValidIndex(h.req.index, Len(h.req.read.outcomes)))
        => /\ h.result = "error"
           /\ \E i \in DOMAIN notifications : notifications[i].level = "error"
           /\ h.after.outcomes = h.before.outcomes

\* The step is the one that finishes a call of handler op.
Finishes(op) == Len(history') = Len(history) + 1 /\ Last(history').op = op

\* The fields of the item the step changes.
ChangedFields == { f \in DOMAIN system : system'[f] # system[f] }

\* C8: isComplete starts false; no step takes it from true to false; the
\* answered update of performActivity leaves it true, reports no error, and
\* changes nothing when it was true already.
CompleteIsOneWay ==
    /\ system.isComplete = FALSE
    /\ [][ /\ system.isComplete => system'.isComplete
           /\ (Finishes("complete") /\ Last(history').result = "ok") =>
                  /\ system'.isComplete
                  /\ Last(notifications').level = "info"
                  /\ system.isComplete => system' = system ]_vars

\* C8's case: performActivity has been applied twice, the second time on an
\* item already complete.
CompletedTwiceWitness ==
    \E i, j \in DOMAIN history :
        /\ i < j
        /\ history[i].op = "complete" /\ history[i].wrote
        /\ history[j].op = "complete" /\ history[j].wrote
        /\ history[j].before.isComplete
        /\ system.isComplete

\* C9: a step changes the item only when it finishes a handler call, and then
\* only that handler's field: currentOutcome for the roll, isComplete for
\* performActivity, outcomes for the two outcome buttons.
EachHandlerItsOwnField ==
    [][ /\ ChangedFields # {} => Len(history') = Len(history) + 1
        /\ Finishes("roll") => ChangedFields \subseteq {"currentOutcome"}
        /\ Finishes("complete") => ChangedFields \subseteq {"isComplete"}
        /\ Finishes("add") => ChangedFields \subseteq {"outcomes"}
        /\ Finishes("remove") => ChangedFields \subseteq {"outcomes"} ]_vars

\* C9's case: a roll has left "B" as the current outcome, the range that
\* produced it has been removed since, and the current outcome is still "B".
RemovedCurrentRangeWitness ==
    \E i, j \in DOMAIN history :
        /\ i < j
        /\ history[i].op = "roll" /\ history[i].wrote
        /\ history[i].after.currentOutcome = "B"
        /\ history[j].op = "remove" /\ history[j].wrote
        /\ \E k \in DOMAIN history[j].before.outcomes :
               history[j].before.outcomes[k].description = "B"
        /\ \A k \in DOMAIN history[j].after.outcomes :
               history[j].after.outcomes[k].description # "B"
        /\ system.currentOutcome = "B"

\* The outcome-button calls that have completed: additions, and removals with
\* an index valid for the outcomes they read.
CompletedAdds == { i \in DOMAIN history : history[i].op = "add" /\ history[i].result = "ok" }
CompletedRemoves ==
    { i \in DOMAIN history : history[i].op = "remove" /\ history[i].result = "ok" }
AllRemovesValid ==
    \A i \in CompletedRemoves :
        ValidIndex(history[i].req.index, Len(history[i].req.read.outcomes))

\* C10: once every started outcome-button call has completed, k additions and
\* m removals with valid indices, the outcomes are k - m longer than at the start.
NoOutcomeEditLost ==
    (/\ \A r \in PendingRequests : r.op \notin {"add", "remove"}
     /\ \A h \in FinishedCalls : h.op \in {"add", "remove"} => h.result = "ok"
     /\ AllRemovesValid)
    => Len(system.outcomes)
          = Len(SchemaInitialOutcomes) + Count(CompletedAdds) - Count(CompletedRemoves)

====
